---- MODULE Spec2Model ----
(***************************************************************************)
(* Flask client of the vehicle tracking system (src/client-flask/app.py):  *)
(* the StompConnection manager, the /api/send, /api/send/batch and         *)
(* /api/status, /health and /metrics handlers, and the broker they talk to. *)
(*                                                                         *)
(* JSON values are modelled by their JSON text: None is JSON null, "0" is  *)
(* the number zero, "45" a number, "A1" a string.  A mapping is a function *)
(* from a set of keys to values.                                           *)
(***************************************************************************)
EXTENDS Integers, Sequences, FiniteSets, TLC

(* ---------------------------------------------------------------- bounds *)

\* worker threads of the HTTP server, each serving one request
NReq == 2
\* longest list body of a batch request
MaxBatch == 2
\* transport handles (stomp.Connection objects) the manager may create
MaxHandles == 3
\* most keys a payload mapping of the normalizer universe carries
MaxKeys == 2

(* ------------------------------------------------------------ JSON data *)

None == "null"

PrimaryKeys == {"licensePlate", "vehicleType", "eventType"}
OptionalKeys == {"latitude", "longitude", "speed", "direction"}

AltKey(k) ==
  CASE k = "licensePlate" -> "license_plate"
    [] k = "vehicleType" -> "vehicle_type"
    [] k = "eventType" -> "event_type"

DefaultOf(k) ==
  CASE k = "licensePlate" -> "UNKNOWN"
    [] k = "vehicleType" -> "CAR"
    [] k = "eventType" -> "DETECTION"

InputKeys == PrimaryKeys \cup {AltKey(k) : k \in PrimaryKeys} \cup OptionalKeys

\* values a caller supplies under a key: null, the number zero, a string
Values == {None, "0", "A1"}

EmptyMap == [k \in {} |-> None]

\* every mapping over the recognized keys carrying at most MaxKeys of them
AllPayloads ==
  UNION {[D -> Values] : D \in {S \in SUBSET InputKeys : Cardinality(S) <= MaxKeys}}

\* the payloads the concurrent requests carry
Payloads ==
  { EmptyMap,
    [k \in {"licensePlate"} |-> "A1"],
    [k \in {"licensePlate"} |-> None] }

\* a JSON element: a mapping (t = "map") or a scalar (t = "scalar", text in s)
Map(m) == [t |-> "map", m |-> m, s |-> None]
Scalar(s) == [t |-> "scalar", m |-> EmptyMap, s |-> s]

\* a JSON body: an element, or a list of elements (t = "list")
One(e) == [t |-> e.t, m |-> e.m, s |-> e.s, l |-> <<>>]
List(l) == [t |-> "list", m |-> EmptyMap, s |-> None, l |-> l]
ElemOf(b) == [t |-> b.t, m |-> b.m, s |-> b.s]

\* Python truthiness of a decoded body (`request.get_json() or ...`)
Falsy(b) ==
  CASE b.t = "map" -> DOMAIN b.m = {}
    [] b.t = "list" -> b.l = <<>>
    [] b.t = "scalar" -> b.s \in {None, "0", "", "false"}

(* --------------------------------------------------------- normalization *)

\* dict.get(key, default)
Get(d, k, default) == IF k \in DOMAIN d THEN d[k] ELSE default

Uuid(n) == "id-" \o ToString(n)
UtcNow(n) == "t-" \o ToString(n)

\* the dict literal of send_event, before the None filter
BuildEvent(data, n) ==
  [ id |-> Uuid(n),
    licensePlate |-> Get(data, "licensePlate", Get(data, "license_plate", "UNKNOWN")),
    vehicleType |-> Get(data, "vehicleType", Get(data, "vehicle_type", "CAR")),
    eventType |-> Get(data, "eventType", Get(data, "event_type", "DETECTION")),
    latitude |-> Get(data, "latitude", None),
    longitude |-> Get(data, "longitude", None),
    speed |-> Get(data, "speed", None),
    direction |-> Get(data, "direction", None),
    source |-> "flask-client",
    timestamp |-> UtcNow(n) ]

\* a filter on truthiness, which drops a zero with the nulls
RemoveFalsy(e) == [k \in {x \in DOMAIN e : e[x] \notin {None, "0", ""}} |-> e[k]]

\* {k: v for k, v in event.items() if v is not None}
RemoveNone(e) == [k \in {x \in DOMAIN e : e[x] # None} |-> e[k]]

\* the event send_event hands to stomp_conn.send
SingleEvent(data, n) == RemoveNone(BuildEvent(data, n))

\* the event send_batch hands to stomp_conn.send
BatchEvent(data, n) ==
  [ id |-> Uuid(n),
    licensePlate |-> Get(data, "licensePlate", "UNKNOWN"),
    vehicleType |-> Get(data, "vehicleType", "CAR"),
    eventType |-> Get(data, "eventType", "DETECTION"),
    source |-> "flask-client",
    timestamp |-> UtcNow(n) ]

\* `request.get_json() or {}` of send_event
SingleData(body) == IF Falsy(body) THEN One(Map(EmptyMap)) ELSE body

\* `request.get_json() or []`, then the coercion of a non-list to a list
BatchEvents(body) ==
  LET events == IF Falsy(body) THEN List(<<>>) ELSE body
  IN  IF events.t = "list" THEN events.l ELSE <<ElemOf(events)>>

(* ----------------------------------------------------------------- state *)

VARIABLES
  conn,       \* StompConnection.conn: NoHandle or the index of a transport handle
  connected,  \* StompConnection.connected
  transport,  \* per created handle: "new" (never handshaken), "up" (is_connected()), "down"
  sent,       \* messages_sent
  failed,     \* messages_failed
  published,  \* the events the broker accepted, in order
  nextId,     \* source of uuid4() and of the clock reading
  main,       \* the main thread: "start", "serving", "exited"
  req         \* per worker thread: the request it serves and where it is in the handler

vars == <<conn, connected, transport, sent, failed, published, nextId, main, req>>

Slots == 1 .. NReq

\* self.conn = None
NoHandle == 0

Handles == 1 .. Len(transport)

\* a worker thread that has not received its request.  Beside the handler's own
\* locals it keeps a record of what the handler did: flag0 and up0 are the flag
\* and the transport's answer when the current send() was called, ops the
\* transport operations of that send() in order, pubOn the state of the handle
\* it published on, ncalls and npub the send() calls made and the events the
\* broker accepted, dSent and dFailed its increments of the two counters, env
\* what the broker did to the current send(): "ok" while it accepted everything,
\* "refused" once it refused a handshake or a publish, "dropped" once it dropped
\* the connection the send() was using
Idle ==
  [ kind |-> "none", pc |-> "idle", body |-> One(Map(EmptyMap)), events |-> <<>>,
    i |-> 0, event |-> EmptyMap, results |-> <<>>, resp |-> [code |-> 0],
    flag0 |-> FALSE, up0 |-> FALSE, ops |-> <<>>, pubOn |-> "none",
    ncalls |-> 0, npub |-> 0, dSent |-> 0, dFailed |-> 0, env |-> "ok" ]

Init ==
  /\ conn = NoHandle
  /\ connected = FALSE
  /\ transport = <<>>
  /\ sent = 0
  /\ failed = 0
  /\ published = <<>>
  /\ nextId = 1
  /\ main = "start"
  /\ req = [r \in Slots |-> Idle]

(* ------------------------------------------------------ StompConnection *)

\* self.conn.is_connected()
IsConnected(h) == transport[h] = "up"

\* a test of the flag alone, which trusts a transport that has dropped
NeedsConnectFlagOnly == ~connected

\* a test that connects only a manager that has never made a handle
NeedsConnectFirstOnly == ~connected /\ conn = NoHandle

\* the condition of send() that decides on the implicit connect
NeedsConnect == ~connected \/ ~IsConnected(conn)

\* the live transport connections the broker holds
Live == {h \in Handles : transport[h] = "up"}

(* ---------------------------------------------------- handler outcomes *)

\* stomp_conn.send(event) is called: StompConnection.send up to the implicit connect
BeginCall(rq) ==
  [rq EXCEPT !.ncalls = @ + 1, !.ops = <<>>, !.pubOn = "none", !.env = "ok",
             !.flag0 = connected,
             !.up0 = (conn # NoHandle /\ transport[conn] = "up"),
             !.pc = IF NeedsConnect THEN "assign" ELSE "publish"]

\* send_event after stomp_conn.send returned: the counter, the log line, the response
SingleReturned(rq) ==
  IF "licensePlate" \in DOMAIN rq.event
  THEN [rq EXCEPT !.dSent = @ + 1, !.pc = "done",
                  !.resp = [code |-> 200, success |-> TRUE, event |-> rq.event]]
  ELSE \* event['licensePlate'] raises KeyError inside the try block
       [rq EXCEPT !.dSent = @ + 1, !.dFailed = @ + 1, !.pc = "done",
                  !.resp = [code |-> 500, success |-> FALSE, error |-> "KeyError"]]

\* the except block of send_event
SingleRaised(rq, err) ==
  [rq EXCEPT !.dFailed = @ + 1, !.pc = "done",
             !.resp = [code |-> 500, success |-> FALSE, error |-> err]]

\* send_batch after stomp_conn.send returned for the current element
BatchReturned(rq) ==
  [rq EXCEPT !.dSent = @ + 1, !.pc = "next",
             !.results = Append(@, [success |-> TRUE, licensePlate |-> rq.event.licensePlate])]

\* an except block that gives up the rest of the batch
BatchRaisedAbort(rq, err) ==
  [rq EXCEPT !.dFailed = @ + 1, !.pc = "next", !.i = Len(rq.events),
             !.results = Append(@, [success |-> FALSE, error |-> err])]

\* the inner except block of send_batch
BatchRaised(rq, err) ==
  [rq EXCEPT !.dFailed = @ + 1, !.pc = "next",
             !.results = Append(@, [success |-> FALSE, error |-> err])]

Returned(rq) == IF rq.kind = "send" THEN SingleReturned(rq) ELSE BatchReturned(rq)
Raised(rq, err) == IF rq.kind = "send" THEN SingleRaised(rq, err) ELSE BatchRaised(rq, err)

\* the request of thread r becomes rq; the counters take the increments rq recorded
Commit(r, rq) ==
  /\ req' = [req EXCEPT ![r] = rq]
  /\ sent' = sent + (rq.dSent - req[r].dSent)
  /\ failed' = failed + (rq.dFailed - req[r].dFailed)

\* sum(1 for r in results if r.get('success'))
Successful(results) == Cardinality({k \in 1 .. Len(results) : results[k].success})

(* ------------------------------------------------------------- actions *)

\* an initial connect that marks the manager connected whatever the handshake did
StartupOptimistic(ok) ==
  /\ main = "start"
  /\ Len(transport) < MaxHandles
  /\ conn' = Len(transport) + 1
  /\ transport' = Append(transport, IF ok THEN "up" ELSE "new")
  /\ connected' = TRUE
  /\ main' = "serving"
  /\ UNCHANGED <<sent, failed, published, nextId, req>>

\* __main__: the initial connect(), whose failure is logged and not fatal
Startup(ok) ==
  /\ main = "start"
  /\ Len(transport) < MaxHandles
  /\ conn' = Len(transport) + 1
  /\ transport' = Append(transport, IF ok THEN "up" ELSE "new")
  /\ connected' = ok
  /\ main' = "serving"
  /\ UNCHANGED <<sent, failed, published, nextId, req>>

\* the module is imported by a WSGI server: the __main__ block does not run, so
\* the server starts serving without a connect attempt
Imported ==
  /\ main = "start"
  /\ main' = "serving"
  /\ UNCHANGED <<conn, connected, transport, sent, failed, published, nextId, req>>

\* thread r may take the next request: threads are numbered in order of arrival
MayArrive(r) ==
  /\ main = "serving"
  /\ req[r].pc = "idle"
  /\ \A q \in Slots : q < r => req[q].pc # "idle"

\* a status handler that probes the broker: it connects a disconnected manager
StatusProbe(r) ==
  /\ MayArrive(r)
  /\ req' = [req EXCEPT ![r] = [@ EXCEPT !.kind = "status", !.pc = "done",
                 !.resp = [code |-> 200, artemis_connected |-> TRUE]]]
  /\ IF ~connected /\ Len(transport) < MaxHandles
     THEN /\ conn' = Len(transport) + 1
          /\ transport' = Append(transport, "up")
          /\ connected' = TRUE
     ELSE UNCHANGED <<conn, connected, transport>>
  /\ UNCHANGED <<sent, failed, published, nextId, main>>

\* GET /api/status
Status(r) ==
  /\ MayArrive(r)
  /\ req' = [req EXCEPT ![r] = [@ EXCEPT !.kind = "status", !.pc = "done",
                 !.resp = [code |-> 200, artemis_connected |-> connected]]]
  /\ UNCHANGED <<conn, connected, transport, sent, failed, published, nextId, main>>

\* GET /health
Health(r) ==
  /\ MayArrive(r)
  /\ req' = [req EXCEPT ![r] = [@ EXCEPT !.kind = "health", !.pc = "done",
                 !.resp = [code |-> 200, status |-> "UP"]]]
  /\ UNCHANGED <<conn, connected, transport, sent, failed, published, nextId, main>>

\* GET /metrics
Metrics(r) ==
  /\ MayArrive(r)
  /\ req' = [req EXCEPT ![r] = [@ EXCEPT !.kind = "metrics", !.pc = "done",
                 !.resp = [code |-> 200, sent |-> sent, failed |-> failed]]]
  /\ UNCHANGED <<conn, connected, transport, sent, failed, published, nextId, main>>

\* POST /api/send up to the implicit connect or the publish of stomp_conn.send
SendEvent(r, bodies) ==
  /\ MayArrive(r)
  /\ \E body \in bodies :
       LET data == SingleData(body)
           rq == [req[r] EXCEPT !.kind = "send", !.body = body]
       IN  IF data.t = "map"
           THEN Commit(r, BeginCall([rq EXCEPT !.event = SingleEvent(data.m, nextId)]))
           ELSE \* data.get raises AttributeError
                Commit(r, SingleRaised(rq, "AttributeError"))
  /\ nextId' = nextId + 1
  /\ UNCHANGED <<conn, connected, transport, published, main>>

\* POST /api/send/batch up to the loop
SendBatch(r, bodies) ==
  /\ MayArrive(r)
  /\ \E body \in bodies :
       req' = [req EXCEPT ![r] = [@ EXCEPT !.kind = "batch", !.body = body,
                  !.events = BatchEvents(body), !.i = 0, !.pc = "next"]]
  /\ UNCHANGED <<conn, connected, transport, sent, failed, published, nextId, main>>

\* send_batch: the next iteration of the loop up to the implicit connect or the
\* publish of stomp_conn.send, or the response
BatchNext(r) ==
  /\ main = "serving"
  /\ req[r].pc = "next"
  /\ LET rq == req[r]
     IN  IF rq.i = Len(rq.events)
         THEN /\ Commit(r, [rq EXCEPT !.pc = "done",
                     !.resp = [code |-> 200, total |-> Len(rq.events),
                               successful |-> Successful(rq.results),
                               results |-> rq.results]])
              /\ UNCHANGED nextId
         ELSE /\ LET elem == rq.events[rq.i + 1]
                     at == [rq EXCEPT !.i = @ + 1]
                 IN  IF elem.t = "map"
                     THEN Commit(r, BeginCall([at EXCEPT !.event = BatchEvent(elem.m, nextId)]))
                     ELSE \* event_data.get raises AttributeError
                          Commit(r, BatchRaised(at, "AttributeError"))
              /\ nextId' = nextId + 1
  /\ UNCHANGED <<conn, connected, transport, published, main>>

\* StompConnection.connect: self.conn = stomp.Connection(...)
ConnectAssign(r) ==
  /\ main = "serving"
  /\ req[r].pc = "assign"
  /\ Len(transport) < MaxHandles
  /\ conn' = Len(transport) + 1
  /\ transport' = Append(transport, "new")
  /\ req' = [req EXCEPT ![r] = [@ EXCEPT !.ops = Append(@, "connect"), !.pc = "handshake"]]
  /\ UNCHANGED <<connected, sent, failed, published, nextId, main>>

\* a connect() that swallows the handshake's failure and lets send() go on
ConnectHandshakeSwallow(r, ok) ==
  /\ main = "serving"
  /\ req[r].pc = "handshake"
  /\ transport' = IF ok THEN [transport EXCEPT ![conn] = "up"] ELSE transport
  /\ connected' = ok
  /\ req' = [req EXCEPT ![r] = [@ EXCEPT !.pc = "publish"]]
  /\ UNCHANGED <<conn, sent, failed, published, nextId, main>>

\* StompConnection.connect: self.conn.connect(...), on whatever handle self.conn
\* names now; the flag, and on failure the handler's except block
ConnectHandshake(r, ok) ==
  /\ main = "serving"
  /\ req[r].pc = "handshake"
  /\ IF ok
     THEN /\ transport' = [transport EXCEPT ![conn] = "up"]
          /\ connected' = TRUE
          /\ req' = [req EXCEPT ![r] = [@ EXCEPT !.pc = "publish"]]
          /\ UNCHANGED <<sent, failed>>
     ELSE /\ connected' = FALSE
          /\ Commit(r, Raised([req[r] EXCEPT !.env = "refused"], "ConnectionError"))
          /\ UNCHANGED transport
  /\ UNCHANGED <<conn, published, nextId, main>>

\* a send() that answers a failed publish by connecting and publishing again
PublishRetry(r, ok) ==
  /\ main = "serving"
  /\ req[r].pc = "publish"
  /\ LET rq == [req[r] EXCEPT !.ops = Append(@, "publish"), !.pubOn = transport[conn]]
     IN  IF ok /\ IsConnected(conn)
         THEN /\ published' = Append(published, rq.event)
              /\ Commit(r, Returned([rq EXCEPT !.npub = @ + 1]))
         ELSE /\ Commit(r, [rq EXCEPT !.pc = IF Len(rq.ops) < 3 THEN "assign" ELSE "publish"])
              /\ UNCHANGED published
  /\ UNCHANGED <<conn, connected, transport, nextId, main>>

\* StompConnection.send: self.conn.send(...), on whatever handle self.conn names
\* now, then the rest of the handler's try block or its except block
Publish(r, ok) ==
  /\ main = "serving"
  /\ req[r].pc = "publish"
  /\ LET rq == [req[r] EXCEPT !.ops = Append(@, "publish"), !.pubOn = transport[conn],
                              !.env = IF IsConnected(conn) /\ ~ok THEN "refused" ELSE @]
     IN  IF ok /\ IsConnected(conn)
         THEN /\ published' = Append(published, rq.event)
              /\ Commit(r, Returned([rq EXCEPT !.npub = @ + 1]))
         ELSE /\ Commit(r, Raised(rq, "SendError"))
              /\ UNCHANGED published
  /\ UNCHANGED <<conn, connected, transport, nextId, main>>

\* the broker or the network drops a live transport connection; a send() that
\* has connected or is about to publish on it has met an outage
Drop(h) ==
  /\ main = "serving"
  /\ transport[h] = "up"
  /\ transport' = [transport EXCEPT ![h] = "down"]
  /\ req' = [r \in Slots |->
               IF h = conn /\ req[r].pc \in {"handshake", "publish"}
               THEN [req[r] EXCEPT !.env = "dropped"]
               ELSE req[r]]
  /\ UNCHANGED <<conn, connected, sent, failed, published, nextId, main>>

\* a disconnect that closes whatever handle there is, connected or not
ShutdownUnguarded ==
  /\ main = "serving"
  /\ main' = "exited"
  /\ IF conn # NoHandle
     THEN /\ transport' = [transport EXCEPT ![conn] = "down"]
          /\ connected' = FALSE
     ELSE UNCHANGED <<transport, connected>>
  /\ UNCHANGED <<conn, sent, failed, published, nextId, req>>

\* a disconnect that forgets the handle and leaves the flag as it was
ShutdownForgetHandle ==
  /\ main = "serving"
  /\ main' = "exited"
  /\ conn' = NoHandle
  /\ IF conn # NoHandle /\ IsConnected(conn)
     THEN transport' = [transport EXCEPT ![conn] = "down"]
     ELSE UNCHANGED transport
  /\ UNCHANGED <<connected, sent, failed, published, nextId, req>>

\* atexit: StompConnection.disconnect
Shutdown ==
  /\ main = "serving"
  /\ main' = "exited"
  /\ IF conn # NoHandle /\ IsConnected(conn)
     THEN /\ transport' = [transport EXCEPT ![conn] = "down"]
          /\ connected' = FALSE
     ELSE UNCHANGED <<transport, connected>>
  /\ UNCHANGED <<conn, sent, failed, published, nextId, req>>

(* -------------------------------------------------------- specifications *)

\* the body of the concurrent send requests
Bodies == {One(Map(EmptyMap))}

\* the server: the startup connect, then NReq threads serving status and send
\* requests concurrently
Next ==
  \/ \E ok \in BOOLEAN : Startup(ok)
  \/ Imported
  \/ \E r \in Slots : Status(r)
  \/ \E r \in Slots : Health(r)
  \/ \E r \in Slots : Metrics(r)
  \/ \E r \in Slots : SendEvent(r, Bodies)
  \/ \E r \in Slots : ConnectAssign(r)
  \/ \E r \in Slots, ok \in BOOLEAN : ConnectHandshake(r, ok)
  \/ \E r \in Slots, ok \in BOOLEAN : Publish(r, ok)
  \/ \E h \in Handles : Drop(h)
  \/ Shutdown

Spec == Init /\ [][Next]_vars

\* the elements of the list bodies
Elems == {Map(m) : m \in Payloads} \cup {Scalar("5")}

ListsUpTo(n) == UNION {[1 .. k -> Elems] : k \in 0 .. n}

\* the bodies of the gateway: every payload alone and as a one-element list, the
\* lists of up to MaxBatch elements, and scalars
GatewayBodies ==
  {One(Map(m)) : m \in AllPayloads} \cup {List(<<Map(m)>>) : m \in AllPayloads}
    \cup {List(l) : l \in ListsUpTo(MaxBatch)} \cup {One(Scalar(s)) : s \in {"5", "0"}}

\* the gateway: the startup connect, then one thread serving one send or batch
\* request of any body
NextGateway ==
  \/ \E ok \in BOOLEAN : Startup(ok)
  \/ Imported
  \/ SendEvent(1, GatewayBodies)
  \/ SendBatch(1, GatewayBodies)
  \/ BatchNext(1)
  \/ ConnectAssign(1)
  \/ \E ok \in BOOLEAN : ConnectHandshake(1, ok)
  \/ \E ok \in BOOLEAN : Publish(1, ok)
  \/ \E h \in Handles : Drop(h)

SpecGateway == Init /\ [][NextGateway]_vars

\* the bodies of the monitored submissions: the empty mapping, a mapping whose
\* licensePlate is null, and the lists of up to MaxBatch empty mappings
MonitorBodies ==
  {One(Map(EmptyMap)), One(Map([k \in {"licensePlate"} |-> None]))}
    \cup {List([k \in 1 .. n |-> Map(EmptyMap)]) : n \in 0 .. MaxBatch}

\* the two threads of the monitored server
Monitored == {1, 2}

\* the monitored server: the startup connect, then two threads serving at the
\* same time: the first a single or batch submission or a read of /health,
\* /metrics or /api/status, the second a single submission or a read
NextMonitor ==
  \/ \E ok \in BOOLEAN : Startup(ok)
  \/ Imported
  \/ \E r \in Monitored : Status(r)
  \/ \E r \in Monitored : Health(r)
  \/ \E r \in Monitored : Metrics(r)
  \/ \E r \in Monitored : SendEvent(r, MonitorBodies)
  \/ SendBatch(1, MonitorBodies)
  \/ BatchNext(1)
  \/ \E r \in Monitored : ConnectAssign(r)
  \/ \E r \in Monitored, ok \in BOOLEAN : ConnectHandshake(r, ok)
  \/ \E r \in Monitored, ok \in BOOLEAN : Publish(r, ok)
  \/ \E h \in Handles : Drop(h)

SpecMonitor == Init /\ [][NextMonitor]_vars

(* ---------------------------------------------------------------- claims *)

\* the elements of a list body whose normalization does not raise
Mappings(l) == {k \in 1 .. Len(l) : l[k].t = "map"}

\* C1: a batch of N elements visits all N in input order whatever the outcome of
\* each send: send() is called once for every element, the response has
\* total = N and N results, result k is the outcome of element k, and successful
\* is the number of elements the broker accepted.
C1_BatchReportsAll ==
  \A r \in Slots :
    (req[r].kind = "batch" /\ req[r].pc = "done" /\ req[r].body.t = "list") =>
      LET rq == req[r]
          l == rq.body.l
          N == Len(l)
      IN  /\ rq.resp.total = N
          /\ Len(rq.resp.results) = N
          /\ rq.i = N
          /\ rq.ncalls = Cardinality(Mappings(l))
          /\ rq.resp.successful = rq.npub
          /\ rq.dSent = rq.npub
          /\ rq.dFailed = N - rq.npub
          /\ \A k \in 1 .. N :
               /\ rq.resp.results[k].success =>
                    /\ l[k].t = "map"
                    /\ rq.resp.results[k].licensePlate = Get(l[k].m, "licensePlate", "UNKNOWN")
               /\ l[k].t # "map" => ~rq.resp.results[k].success

\* C1 witness: a two-element batch whose first send failed and whose second succeeded
C1_Witness ==
  \E r \in Slots :
    /\ req[r].kind = "batch" /\ req[r].pc = "done" /\ req[r].body.t = "list"
    /\ Len(req[r].body.l) = 2
    /\ Mappings(req[r].body.l) = {1, 2}
    /\ ~req[r].resp.results[1].success
    /\ req[r].resp.results[2].success
    /\ req[r].resp.successful = 1

\* C2: a single submission ends in exactly one of two ways: the event published,
\* sent incremented, failed untouched and success reported; or nothing published,
\* failed incremented, sent untouched and failure reported.
C2_OneOutcome ==
  \A r \in Slots :
    (req[r].kind = "send" /\ req[r].pc = "done") =>
      \/ /\ req[r].npub = 1 /\ req[r].dSent = 1 /\ req[r].dFailed = 0
         /\ req[r].resp.success
      \/ /\ req[r].npub = 0 /\ req[r].dSent = 0 /\ req[r].dFailed = 1
         /\ ~req[r].resp.success

\* a send() call of thread r has ended: the handler is past it
CallEnded(r) == req[r].ncalls > 0 /\ req[r].pc \in {"next", "done"}

\* the manager was disconnected when the current send() of thread r was called:
\* the flag was false, or the transport reported not connected
WasDisconnected(r) == ~req[r].flag0 \/ ~req[r].up0

\* C3: a send() called while the manager is disconnected makes exactly one
\* connect attempt, and makes it before its publish attempt; a send() called
\* while connected makes no connect attempt.
C3_OneConnectBeforePublish ==
  \A r \in Slots :
    /\ (req[r].ncalls > 0 /\ ~WasDisconnected(r)) =>
         req[r].ops \in {<<>>, <<"publish">>}
    /\ (req[r].ncalls > 0 /\ WasDisconnected(r)) =>
         req[r].ops \in {<<>>, <<"connect">>, <<"connect", "publish">>}
    /\ (CallEnded(r) /\ WasDisconnected(r)) =>
         req[r].ops \in {<<"connect">>, <<"connect", "publish">>}
    /\ (CallEnded(r) /\ ~WasDisconnected(r)) => req[r].ops = <<"publish">>

\* C3 witness: a send() called with the flag true and the transport dropped has
\* connected once and then published
C3_Witness ==
  \E r \in Slots :
    /\ CallEnded(r) /\ req[r].flag0 /\ ~req[r].up0
    /\ req[r].ops = <<"connect", "publish">>
    /\ req[r].npub = 1

\* the threads inside connect(): the handle assigned, the handshake not finished
InConnect == {r \in Slots : req[r].pc = "handshake"}

\* C4: connect-then-publish is serialized: no two threads are inside connect()
\* at once, and no thread publishes on a handle another thread's connect() has
\* put in place and not finished handshaking.
C4_Serialized ==
  /\ Cardinality(InConnect) <= 1
  /\ \A r \in Slots : req[r].pubOn # "new"

\* C5: at most one transport connection is live, and a live one is the one the
\* manager's handle names.
C5_AtMostOneLive ==
  /\ Cardinality(Live) <= 1
  /\ \A h \in Live : h = conn

\* C6: when the publish step of a send() fails on an established connection, the
\* connected flag is false once the send() has returned.
C6_FailedPublishDisconnects ==
  [][\A r \in Slots :
       ( /\ req[r].pc = "publish"
         /\ req'[r].pc = "done"
         /\ ~req'[r].resp.success
         /\ req'[r].pubOn # "new" ) => ~connected']_vars

\* the fields every event must carry
RequiredKeys == {"id", "licensePlate", "vehicleType", "eventType", "source", "timestamp"}

\* C7: every event handed to the broker carries the six required fields, and
\* carries no field, required or optional, whose value is null.
C7_RequiredFieldsNonNull ==
  \A k \in 1 .. Len(published) :
    /\ RequiredKeys \subseteq DOMAIN published[k]
    /\ \A f \in DOMAIN published[k] : published[k][f] # None

\* thread r served a single submission of a mapping and the broker accepted its event
PublishedSingle(r) ==
  req[r].kind = "send" /\ req[r].body.t = "map" /\ req[r].npub = 1

\* the value the claim gives field k of the event made from mapping m
Supplied(m, k) ==
  IF k \in DOMAIN m THEN m[k]
  ELSE IF AltKey(k) \in DOMAIN m THEN m[AltKey(k)]
  ELSE DefaultOf(k)

\* C8: licensePlate, vehicleType and eventType of the event of a single
\* submission are the value under the camelCase key when that key is present,
\* else the value under the snake_case key when present, else the default.
C8_PrimaryThenAlternateThenDefault ==
  \A r \in Slots :
    PublishedSingle(r) =>
      \A k \in PrimaryKeys :
        /\ k \in DOMAIN req[r].event
        /\ req[r].event[k] = Supplied(req[r].body.m, k)

\* an event without the two fields made afresh for every event
Strip(e) == [k \in DOMAIN e \ {"id", "timestamp"} |-> e[k]]

\* thread r serves a batch and the broker accepted the event of its current element
PublishedElement(r) ==
  /\ req[r].kind = "batch" /\ req[r].pc \in {"next", "done"}
  /\ req[r].i > 0 /\ Len(req[r].results) = req[r].i
  /\ req[r].results[req[r].i].success

\* C9: the event published for a mapping as a batch element equals, id and
\* timestamp apart, the event a single submission publishes for that mapping.
C9_BatchSameAsSingle ==
  \A r \in Slots :
    PublishedElement(r) =>
      Strip(req[r].event) = Strip(SingleEvent(req[r].events[req[r].i].m, 0))

\* C10 as claimed: an optional field whose key the input lacks is not in the
\* published event, and one whose key the input carries is in it with the
\* supplied value.
C10_OptionalCarriedIfKeyPresent ==
  \A r \in Slots :
    PublishedSingle(r) =>
      \A k \in OptionalKeys :
        IF k \in DOMAIN req[r].body.m
        THEN k \in DOMAIN req[r].event /\ req[r].event[k] = req[r].body.m[k]
        ELSE k \notin DOMAIN req[r].event

\* C10 as amended: an optional field whose key the input lacks, or carries with
\* null, is not in the published event; one the input carries with any other
\* value, zero included, is in it with exactly that value.
C10_OptionalCarriedIfNonNull ==
  \A r \in Slots :
    PublishedSingle(r) =>
      \A k \in OptionalKeys :
        IF k \in DOMAIN req[r].body.m /\ req[r].body.m[k] # None
        THEN k \in DOMAIN req[r].event /\ req[r].event[k] = req[r].body.m[k]
        ELSE k \notin DOMAIN req[r].event

\* C10 witness: a published single submission carrying a zero speed and no
\* latitude, whose event has the zero speed and no latitude
C10_Witness ==
  \E r \in Slots :
    /\ PublishedSingle(r)
    /\ "speed" \in DOMAIN req[r].body.m /\ req[r].body.m["speed"] = "0"
    /\ "latitude" \notin DOMAIN req[r].body.m
    /\ "speed" \in DOMAIN req[r].event /\ req[r].event["speed"] = "0"
    /\ "latitude" \notin DOMAIN req[r].event
    /\ published[Len(published)] = req[r].event

\* C11: once disconnect() has returned, the connected flag is false and no
\* transport connection is live.
C11_DisconnectedAfterDisconnect ==
  main = "exited" => (~connected /\ Live = {})

\* the manager is disconnected: the flag is false and its handle, if it has one,
\* is not connected
Disconnected == ~connected /\ (conn = NoHandle \/ transport[conn] # "up")

\* C12: disconnect() called on a disconnected manager leaves the flag, the
\* handle, the transports and both counters as they were.
C12_DisconnectIdempotent ==
  [][(main = "serving" /\ main' = "exited" /\ Disconnected) =>
       UNCHANGED <<conn, connected, transport, sent, failed, published>>]_vars

\* C12 witness: disconnect() has returned on a manager whose last connect failed,
\* and the handle is still the one that never connected
C12_Witness ==
  /\ main = "exited"
  /\ ~connected
  /\ conn # NoHandle
  /\ transport[conn] = "new"

\* the error the handler of thread r caught last
LastError(rq) ==
  IF rq.kind = "send" THEN rq.resp.error ELSE rq.results[Len(rq.results)].error

\* C13: a connect() ends in one of two ways: the handshake succeeded, the flag is
\* true and send() goes on to publish; or it failed, the flag is false and the
\* caller gets a ConnectionError, which the handler reports as a failure without
\* a publish.  The connect at startup, failed or not, leaves the process serving
\* with the flag telling whether the handshake succeeded.
C13_ConnectOutcome ==
  [][ /\ \A r \in Slots :
           (req[r].pc = "handshake" /\ req'[r].pc # "handshake") =>
             \/ /\ req'[r].pc = "publish"
                /\ connected'
                /\ transport'[conn'] = "up"
                /\ failed' = failed
             \/ /\ req'[r].pc \in {"done", "next"}
                /\ ~connected'
                /\ LastError(req'[r]) = "ConnectionError"
                /\ failed' = failed + 1
                /\ req'[r].ops = <<"connect">>
                /\ published' = published
      /\ (main = "start" /\ conn' # conn) =>
           /\ main' = "serving"
           /\ connected' <=> (transport'[conn'] = "up") ]_vars

\* C13 witness: the connect at startup succeeded, the connection dropped, and the
\* connect of a send failed: the flag is false, the request failed with a
\* ConnectionError, and the process is serving
C13_Witness ==
  /\ main = "serving"
  /\ ~connected
  /\ \E h \in Handles : transport[h] = "down"
  /\ \E r \in Slots :
       /\ req[r].kind = "send" /\ req[r].pc = "done"
       /\ req[r].ops = <<"connect">>
       /\ req[r].resp.error = "ConnectionError"

\* thread r has answered a batch request whose body was of JSON type t
BatchAnswered(r, t) ==
  req[r].kind = "batch" /\ req[r].pc = "done" /\ req[r].body.t = t

\* C14: a batch request whose body is a single mapping, the empty one included,
\* is processed as a batch of one element: one element is normalized and handed
\* to send(), and the response has total = 1 and one result.
C14_MappingIsBatchOfOne ==
  \A r \in Slots :
    BatchAnswered(r, "map") =>
      /\ req[r].resp.total = 1
      /\ Len(req[r].resp.results) = 1
      /\ req[r].ncalls = 1

\* C15: a batch request whose body is a scalar is answered by one failure of the
\* whole batch, HTTP 500, with no element results, no send() and both counters
\* as they were.
C15_ScalarBodyIsHardFailure ==
  \A r \in Slots :
    BatchAnswered(r, "scalar") =>
      /\ req[r].resp.code = 500
      /\ req[r].results = <<>>
      /\ req[r].ncalls = 0
      /\ req[r].dSent = 0
      /\ req[r].dFailed = 0

\* no connect attempt has succeeded yet: every handle made so far, if any, has
\* never finished a handshake
NeverConnected == \A h \in Handles : transport[h] = "new"

\* C16: as long as no connect attempt has succeeded, the flag is false, and every
\* GET /api/status answered so far reported artemis_connected = false.
C16_StatusFalseUntilConnected ==
  NeverConnected =>
    /\ ~connected
    /\ \A r \in Slots :
         (req[r].kind = "status" /\ req[r].pc = "done") => ~req[r].resp.artemis_connected

\* C16 witness: the connect at startup and the connect of a send have both
\* failed, and a status request answered after them reported false
C16_Witness ==
  /\ NeverConnected
  /\ Len(transport) >= 2
  /\ \E r, q \in Slots :
       /\ req[q].kind = "send" /\ req[q].pc = "done" /\ req[q].ops = <<"connect">>
       /\ req[r].kind = "status" /\ req[r].pc = "done"
       /\ ~req[r].resp.artemis_connected

\* the transport operations one send() may make: at most one connect, at most one
\* publish, the connect first
OneAttempt == {<<>>, <<"connect">>, <<"publish">>, <<"connect", "publish">>}

\* C17: no send() retries.  Every send() makes at most one connect attempt and
\* at most one publish attempt; it goes from its connect to its publish only when
\* the handshake succeeded; the broker has accepted exactly the events of the
\* sends that succeeded, each once, so the event of a failed send is published
\* by nothing later; and a handle is made or connected only by the connect at
\* startup or by a thread inside send().
C17_NoRetry ==
  [][ /\ \A r \in Slots :
           /\ req'[r].ops \in OneAttempt
           /\ (req[r].pc = "handshake" /\ req'[r].pc = "publish") =>
                (connected' /\ transport'[conn'] = "up")
           /\ (req'[r].kind = "send" /\ req'[r].pc = "done" /\ req'[r].npub = 0) =>
                \A k \in 1 .. Len(published') : published'[k] # req'[r].event
      /\ Len(published') = Cardinality({r \in Slots : req'[r].npub = 1})
      /\ \A k \in 1 .. Len(published') :
           \E r \in Slots : req'[r].npub = 1 /\ req'[r].event = published'[k]
      /\ Len(transport') > Len(transport) =>
           \/ main = "start"
           \/ \E r \in Slots : req[r].pc = "assign" /\ req'[r].ops = <<"connect">>
      /\ \A h \in Handles :
           (transport[h] # "up" /\ transport'[h] = "up") =>
             \E r \in Slots : req[r].pc = "handshake" /\ req'[r].pc = "publish" ]_vars

\* C17 witness: the send of one thread connected, failed to publish and was
\* answered with the failure; the broker holds the event of the other thread's
\* send and nothing else
C17_Witness ==
  \E r, q \in Slots :
    /\ req[r].kind = "send" /\ req[r].pc = "done"
    /\ req[r].ops = <<"connect", "publish">> /\ req[r].npub = 0
    /\ req[r].resp.error = "SendError"
    /\ req[q].kind = "send" /\ req[q].pc = "done" /\ req[q].npub = 1
    /\ published = <<req[q].event>>

\* C18: with one thread, a send() during which the broker accepted every
\* handshake and publish and dropped nothing has published its event, whatever
\* state the manager was in when it was called: it connected first when the flag
\* was false or the transport reported not connected, and published on a
\* connected handle.
C18_SendSucceedsWhenBrokerUp ==
  (CallEnded(1) /\ req[1].env = "ok") =>
    /\ published # <<>>
    /\ published[Len(published)] = req[1].event
    /\ req[1].pubOn = "up"
    /\ WasDisconnected(1) => req[1].ops = <<"connect", "publish">>
    /\ req[1].kind = "batch" =>
         /\ req[1].results # <<>>
         /\ \E k \in 1 .. Len(req[1].results) : req[1].results[k].success

\* C18 witness: the first send() of a batch lost its connection before the
\* publish and failed, leaving the flag true; the second, called in that state
\* with the broker up, connected again and published
C18_Witness ==
  /\ req[1].kind = "batch" /\ req[1].pc = "done"
  /\ req[1].ncalls = 2
  /\ ~req[1].results[1].success
  /\ req[1].results[1].error = "SendError"
  /\ req[1].results[2].success
  /\ req[1].flag0 /\ ~req[1].up0
  /\ req[1].env = "ok"
  /\ req[1].ops = <<"connect", "publish">>
  /\ published = <<req[1].event>>

\* the kinds of request that only read
Reads == {"status", "health", "metrics"}

\* C19: after every step of any interleaving of single and batch submissions
\* and reads, the sent counter is the number of events the broker accepted,
\* which is the number of send() calls that succeeded; and a step that serves
\* GET /health, GET /metrics or GET /api/status leaves the flag, the handle, the
\* transports, both counters and the broker's events as they were.
C19_CountersAndReads ==
  [][ /\ sent' = Len(published')
      /\ sent' = req'[1].npub + req'[2].npub
      /\ \A r \in Monitored :
           (req[r].pc = "idle" /\ req'[r].kind \in Reads) =>
             UNCHANGED <<conn, connected, transport, sent, failed, published>> ]_vars

\* C19 witness: of the two events of a batch the broker accepted one and refused
\* the other, and a read of /metrics served after them reported sent = 1, the
\* number of events the broker holds, and failed = 1
C19_Witness ==
  /\ req[1].kind = "batch" /\ req[1].pc = "done"
  /\ req[1].ncalls = 2 /\ req[1].npub = 1
  /\ req[2].kind = "metrics" /\ req[2].pc = "done"
  /\ req[2].resp.sent = 1 /\ req[2].resp.failed = 1
  /\ sent = 1 /\ failed = 1
  /\ Len(published) = 1

\* C20: whenever the connected flag is true the manager has a handle, and so has
\* it whenever a thread is inside send() about to handshake or publish on
\* self.conn: the handle is then one that stomp.Connection made.
C20_FlagImpliesHandle ==
  /\ connected => conn # NoHandle
  /\ \A r \in Slots :
       req[r].pc \in {"handshake", "publish"} => conn \in Handles

\* C20 witness: the flag is true while one thread is about to publish and
\* another, inside connect(), has replaced the handle and not yet handshaken
C20_Witness ==
  /\ connected
  /\ conn # NoHandle
  /\ transport[conn] = "new"
  /\ \E r, q \in Slots :
       /\ req[r].pc = "publish"
       /\ req[q].pc = "handshake"

====
